---------------------------- MODULE Spec2Model ----------------------------
(***************************************************************************)
(* The sample store and rate engine of checks/__init__.py (class Check).   *)
(*                                                                         *)
(* Python values are represented as follows.                               *)
(*   number      a rational in lowest terms, [n |-> Int, d |-> Nat \ {0}]  *)
(*   None        the string "None" (hostname, device_name)                 *)
(*   tags        [kind |-> "none" | "list" | "tuple" | "str", elems |-> s] *)
(*   sample      the 4-tuple <<timestamp, value, hostname, device_name>>   *)
(*   dict        a function whose DOMAIN is the set of keys                *)
(*   exception   the name of its class, "none" when the call returned      *)
(***************************************************************************)
EXTENDS Integers, Sequences, FiniteSets

VARIABLES
    store,      \* self._sample_store : metric -> key -> history
    counters,   \* the keys of self._counters
    last,       \* the call that produced this state: arguments and outcome
    instances,  \* AgentCheck.instances : what the body of check() does on each
    warnings,   \* AgentCheck.warnings
    events,     \* AgentCheck.events
    done        \* the AgentCheck call that produced this state, and its result

vars == <<store, counters, last, instances, warnings, events, done>>

\* The attributes of Check, and the ones AgentCheck adds to them
check_vars == <<store, counters, last>>
agent_vars == <<instances, warnings, events, done>>

None == "None"

----------------------------------------------------------------------------
(* Numbers *)

Abs(x) == IF x < 0 THEN -x ELSE x

RECURSIVE Gcd(_, _)
Gcd(a, b) == IF b = 0 THEN a ELSE Gcd(b, a % b)

\* The rational n/d (d # 0) in lowest terms with a positive denominator.
Rat(n, d) ==
    LET g == Gcd(Abs(n), Abs(d))
        s == IF d < 0 THEN -1 ELSE 1
    IN  [n |-> (s * n) \div g, d |-> (s * d) \div g]

Num(n) == [n |-> n, d |-> 1]

\* a - b
Sub(a, b) == Rat(a.n * b.d - b.n * a.d, a.d * b.d)

\* a / b, true division of two floats (b # 0)
Div(a, b) == Rat(a.n * b.d, a.d * b.n)

\* int(x): truncation towards zero
Int_(x) == IF x.n >= 0 THEN x.n \div x.d ELSE -((-x.n) \div x.d)

----------------------------------------------------------------------------
(* Input sets *)

Metrics == {"m1", "m2"}

\* The tag strings in use and their lexicographic rank.
Rank(t) == IF t = "a" THEN 1 ELSE 2

NoTags == [kind |-> "none", elems |-> <<>>]

ListBA  == [kind |-> "list",  elems |-> <<"b", "a">>]
TupleBA == [kind |-> "tuple", elems |-> <<"b", "a">>]
TupleAB == [kind |-> "tuple", elems |-> <<"a", "b">>]
StrA    == [kind |-> "str",   elems |-> <<"a">>]

\* Raw values handed to save_sample: numbers and a non-numeric string.
Junk == [kind |-> "str", num |-> Num(0)]
RawNum(n) == [kind |-> "num", num |-> Num(n)]

\* (value, timestamp, hostname) triples handed to save_sample: two values at
\* two timestamps, and a value that is no number.
Samples ==
    { <<RawNum(0), Num(1),    None>>,
      <<RawNum(3), Num(1),    "h">>,
      <<RawNum(0), Rat(5, 2), None>>,
      <<RawNum(3), Rat(5, 2), "h">> }

FewSamples ==
    { <<RawNum(0), Num(1),    None>>,
      <<RawNum(3), Rat(5, 2), "h">> }

BadSample == <<Junk, Num(1), None>>

\* The writes: <<tags, device_name, <<value, timestamp, hostname>>>>.  The
\* untagged series of m1 receives every sample; its tagged series on device
\* "d" and the untagged series of m2 receive two of them.
Writes(m) ==
    IF m = "m1"
    THEN ({<<NoTags, None>>} \X (Samples \cup {BadSample}))
         \cup ({<<ListBA, "d">>, <<TupleBA, "d">>} \X FewSamples)
         \cup ({<<StrA, None>>} \X {<<RawNum(0), Num(1), None>>, BadSample})
    ELSE {<<NoTags, None>>} \X (FewSamples \cup {BadSample})

\* The save_gauge calls, in the same shape.
GaugeWrites(m) ==
    IF m = "m1"
    THEN {<<NoTags, None>>, <<ListBA, "d">>} \X FewSamples
    ELSE {<<NoTags, None>>} \X FewSamples

\* The (tags, device_name) pairs read.
ReadKeys ==
    {<<NoTags, None>>, <<ListBA, "d">>, <<TupleBA, "d">>, <<TupleAB, "d">>}

----------------------------------------------------------------------------
(* Helpers of the Python runtime *)

\* sorted(tags), by insertion
RECURSIVE Insert(_, _)
Insert(x, s) ==
    IF s = <<>> THEN <<x>>
    ELSE IF Rank(x) <= Rank(Head(s)) THEN <<x>> \o s
    ELSE <<Head(s)>> \o Insert(x, Tail(s))

RECURSIVE Sorted(_)
Sorted(s) == IF s = <<>> THEN <<>> ELSE Insert(Head(s), Sorted(Tail(s)))

EmptyDict == [k \in {} |-> <<>>]

\* d[k] = v on a dict
Put(d, k, v) == [x \in DOMAIN d \cup {k} |-> IF x = k THEN v ELSE d[x]]

Last(s) == s[Len(s)]


\* Put2 that replaces the dict of k1 by one holding k2 alone
Put2_replace(d, k1, k2, v) == [d EXCEPT ![k1] = Put(EmptyDict, k2, v)]

\* d[k1][k2] = v on a dict of dicts (k1 present)
Put2(d, k1, k2, v) == [d EXCEPT ![k1] = Put(d[k1], k2, v)]

\* The permutations of a finite set, as sequences: the orders in which a
\* dict may hand out its keys.
Perms(S) ==
    {p \in [1..Cardinality(S) -> S] : \A i, j \in DOMAIN p : i # j => p[i] # p[j]}

----------------------------------------------------------------------------
(* class Check: registry *)

is_counter(c, metric) == metric \in c

is_metric(s, metric) == metric \in DOMAIN s

is_gauge(s, c, metric) == is_metric(s, metric) /\ ~is_counter(c, metric)

\* Check.counter
counter(s, c, metric) ==
    [store |-> Put(s, metric, EmptyDict), counters |-> c \cup {metric}]

\* gauge without the reset of a name already declared
gauge_no_reset(s, c, metric) ==
    [store |-> IF metric \in DOMAIN s THEN s ELSE Put(s, metric, EmptyDict),
     counters |-> c]

\* Check.gauge: the name stays in _counters if it was ever a counter
gauge(s, c, metric) ==
    [store |-> Put(s, metric, EmptyDict), counters |-> c]

----------------------------------------------------------------------------
(* class Check: write path *)

\* util.cast_metric_val: a number is kept, anything else raises ValueError
cast_metric_val(value) ==
    [err |-> IF value.kind = "num" THEN "none" ELSE "ValueError",
     val |-> value.num]

\* "Sort and validate tags" of save_sample
SaveTags(tags) ==
    IF tags.kind \in {"list", "tuple"}
    THEN [kind |-> "tuple", elems |-> Sorted(tags.elems)]
    ELSE tags

\* the history a gauge write leaves under its key
GaugeHistory(sample) == <<sample>>

\* CounterHistory without the [-1:] slice: the whole old history is kept
CounterHistory_no_slice(old, key, sample) ==
    IF key \notin DOMAIN old
    THEN <<sample>>
    ELSE old[key] \o <<sample>>

\* CounterHistory with the [:1] slice: the oldest sample is kept
CounterHistory_oldest(old, key, sample) ==
    IF key \notin DOMAIN old
    THEN <<sample>>
    ELSE <<old[key][1]>> \o <<sample>>

\* the history a counter write leaves under its key; old is the dict of the
\* metric
CounterHistory(old, key, sample) ==
    IF key \notin DOMAIN old
    THEN <<sample>>
    ELSE <<Last(old[key])>> \o <<sample>>

UndefinedMetric == "CheckException: Saving a sample for an undefined metric"
BadTags == "CheckException: Tags must be a list or tuple of strings"
NeitherKind == "CheckException: must be either gauge or counter"

\* The checks save_sample makes before it stores: the exception it raises,
\* "none" when it goes on.  cast is the outcome of cast_metric_val.
WriteError(s, metric, cast, tags) ==
    IF metric \notin DOMAIN s
    THEN UndefinedMetric
    ELSE IF cast.err # "none"
    THEN "NaN"
    ELSE IF tags.kind \notin {"none", "list", "tuple"}
    THEN BadTags
    ELSE "none"

\* StoreSample with a gauge write that keeps a sample already stored
StoreSample_setdefault(s, c, metric, key, sample) ==
    IF is_gauge(s, c, metric)
    THEN [store |-> IF key \in DOMAIN s[metric]
                    THEN s
                    ELSE Put2(s, metric, key, GaugeHistory(sample)),
          err |-> "none"]
    ELSE IF is_counter(c, metric)
    THEN [store |-> Put2(s, metric, key,
                         CounterHistory(s[metric], key, sample)),
          err |-> "none"]
    ELSE [store |-> s, err |-> NeitherKind]

\* "Data eviction rules" of save_sample
StoreSample(s, c, metric, key, sample) ==
    IF is_gauge(s, c, metric)
    THEN [store |-> Put2(s, metric, key, GaugeHistory(sample)),
          err |-> "none"]
    ELSE IF is_counter(c, metric)
    THEN [store |-> Put2(s, metric, key,
                         CounterHistory(s[metric], key, sample)),
          err |-> "none"]
    ELSE [store |-> s, err |-> NeitherKind]

\* save_sample storing before it validates the value and the tags
save_sample_store_first(s, c, metric, value, timestamp, tags, hostname, device_name) ==
    LET cast   == cast_metric_val(value)
        e      == WriteError(s, metric, cast, tags)
        key    == <<SaveTags(tags), device_name>>
        sample == <<timestamp, cast.val, hostname, device_name>>
    IN  IF metric \notin DOMAIN s
        THEN [store |-> s, err |-> e]
        ELSE IF e # "none"
        THEN [store |-> StoreSample(s, c, metric, key, sample).store,
              err |-> e]
        ELSE StoreSample(s, c, metric, key, sample)

\* Check.save_sample; a None timestamp is time.time(), any element of the
\* timestamps the caller may pass
save_sample(s, c, metric, value, timestamp, tags, hostname, device_name) ==
    LET cast   == cast_metric_val(value)
        e      == WriteError(s, metric, cast, tags)
        key    == <<SaveTags(tags), device_name>>
        sample == <<timestamp, cast.val, hostname, device_name>>
    IN  IF e # "none"
        THEN [store |-> s, err |-> e]
        ELSE StoreSample(s, c, metric, key, sample)

\* Check.save_gauge
save_gauge(s, c, metric, value, timestamp, tags, hostname, device_name) ==
    LET g == IF ~is_gauge(s, c, metric)
             THEN gauge(s, c, metric)
             ELSE [store |-> s, counters |-> c]
        w == save_sample(g.store, g.counters, metric, value, timestamp,
                         tags, hostname, device_name)
    IN  [store |-> w.store, counters |-> g.counters, err |-> w.err]

----------------------------------------------------------------------------
(* class Check: rate and read path *)

NoSample == <<Num(0), Num(0), None, None>>

\* _rate copying hostname and device_name from the first sample
_rate_first_host(sample1, sample2) ==
    LET interval == Sub(sample2[1], sample1[1])
        delta    == Sub(sample2[2], sample1[2])
    IN  IF interval.n = 0
        THEN [err |-> "Infinity", val |-> NoSample]
        ELSE IF delta.n < 0
        THEN [err |-> "UnknownValue", val |-> NoSample]
        ELSE [err |-> "none",
              val |-> <<sample2[1], Div(delta, interval),
                        sample1[3], sample1[4]>>]

\* _rate without the check of a negative delta
_rate_no_reset_check(sample1, sample2) ==
    LET interval == Sub(sample2[1], sample1[1])
        delta    == Sub(sample2[2], sample1[2])
    IN  IF interval.n = 0
        THEN [err |-> "Infinity", val |-> NoSample]
        ELSE [err |-> "none",
              val |-> <<sample2[1], Div(delta, interval),
                        sample2[3], sample2[4]>>]

\* _rate checking the delta before the interval
_rate_delta_first(sample1, sample2) ==
    LET interval == Sub(sample2[1], sample1[1])
        delta    == Sub(sample2[2], sample1[2])
    IN  IF delta.n < 0
        THEN [err |-> "UnknownValue", val |-> NoSample]
        ELSE IF interval.n = 0
        THEN [err |-> "Infinity", val |-> NoSample]
        ELSE [err |-> "none",
              val |-> <<sample2[1], Div(delta, interval),
                        sample2[3], sample2[4]>>]

\* Check._rate
_rate(sample1, sample2) ==
    LET interval == Sub(sample2[1], sample1[1])
        delta    == Sub(sample2[2], sample1[2])
    IN  IF interval.n = 0
        THEN [err |-> "Infinity", val |-> NoSample]
        ELSE IF delta.n < 0
        THEN [err |-> "UnknownValue", val |-> NoSample]
        ELSE [err |-> "none",
              val |-> <<sample2[1], Div(delta, interval),
                        sample2[3], sample2[4]>>]

\* "Get the proper tags" of get_sample_with_timestamp: only a list is sorted
ReadTags(tags) ==
    IF tags.kind = "list"
    THEN [kind |-> "tuple", elems |-> Sorted(tags.elems)]
    ELSE tags

\* Expire that evicts nothing
Expire_nothing(history) == history

\* del history[:-1]
Expire(history) == <<Last(history)>>

Raise(s, e) == [store |-> s, err |-> e, val |-> NoSample]

\* RateRead evicting before it computes the rate
RateRead_evict_first(s, metric, key, expire) ==
    LET h   == s[metric][key]
        res == _rate(h[Len(h) - 1], h[Len(h)])
        t   == IF expire THEN Put2(s, metric, key, Expire(h)) ELSE s
    IN  IF res.err # "none"
        THEN Raise(t, res.err)
        ELSE [store |-> t, err |-> "none", val |-> res.val]

\* The counter branch of get_sample_with_timestamp with two samples or more:
\* the rate of the last two, then the eviction
RateRead(s, metric, key, expire) ==
    LET h   == s[metric][key]
        res == _rate(h[Len(h) - 1], h[Len(h)])
    IN  IF res.err # "none"
        THEN Raise(s, res.err)
        ELSE [store |-> IF expire THEN Put2(s, metric, key, Expire(h)) ELSE s,
              err |-> "none", val |-> res.val]

\* MissingKey of a defaultdict: the lookup adds the key with no sample
MissingKey_setdefault(s, metric, key) ==
    [Raise(s, "KeyError") EXCEPT !.store = Put2(s, metric, key, <<>>)]

\* self._sample_store[metric][key] for a key the metric's dict does not hold:
\* indexing a dict raises KeyError and adds nothing to it
MissingKey(s, metric, key) == Raise(s, "KeyError")

\* GaugeRead that consumes the sample it returns
GaugeRead_pop(s, metric, key) ==
    [store |-> Put2(s, metric, key, <<>>), err |-> "none",
     val |-> Last(s[metric][key])]

\* The gauge branch of get_sample_with_timestamp: the latest sample, whatever
\* expire is
GaugeRead(s, metric, key) ==
    [store |-> s, err |-> "none", val |-> Last(s[metric][key])]

\* Check.get_sample_with_timestamp
get_sample_with_timestamp(s, c, metric, tags, device_name, expire) ==
    LET key == <<ReadTags(tags), device_name>>
    IN  IF metric \notin DOMAIN s
        THEN Raise(s, "UnknownValue")
        ELSE IF key \notin DOMAIN s[metric]
        THEN MissingKey(s, metric, key)
        ELSE IF is_counter(c, metric) /\ Len(s[metric][key]) < 2
        THEN Raise(s, "UnknownValue")
        ELSE IF is_counter(c, metric) /\ Len(s[metric][key]) >= 2
        THEN RateRead(s, metric, key, expire)
        ELSE IF is_gauge(s, c, metric) /\ Len(s[metric][key]) >= 1
        THEN GaugeRead(s, metric, key)
        ELSE Raise(s, "UnknownValue")

\* The loop of get_samples_with_timestamps over the metrics left in todo:
\* a read that raises is skipped.  Reading metric m changes the dict of m
\* alone, so the order of the loop does not show in the outcome.
RECURSIVE SamplesLoop(_, _, _, _, _)
SamplesLoop(s, c, todo, expire, values) ==
    IF todo = {}
    THEN [store |-> s, values |-> values]
    ELSE LET m == CHOOSE x \in todo : TRUE
             r == get_sample_with_timestamp(s, c, m, NoTags, None, expire)
         IN  SamplesLoop(r.store, c, todo \ {m}, expire,
                         IF r.err = "none" THEN Put(values, m, r.val)
                                           ELSE values)

\* get_samples_with_timestamps that evicts whatever expire is
get_samples_with_timestamps_evicting(s, c, expire) ==
    SamplesLoop(s, c, DOMAIN s, TRUE, EmptyDict)

\* Check.get_samples_with_timestamps
get_samples_with_timestamps(s, c, expire) ==
    SamplesLoop(s, c, DOMAIN s, expire, EmptyDict)

\* Check.get_samples: the same loop, keeping x[1] of every sample
get_samples(s, c, expire) ==
    LET r == SamplesLoop(s, c, DOMAIN s, expire, EmptyDict)
    IN  [store |-> r.store,
         values |-> [m \in DOMAIN r.values |-> r.values[m][2]]]

\* the attributes dict of one record of get_metrics
Attributes(tags, hostname, device_name) ==
    LET keys == (IF tags.kind # "none" /\ tags.elems # <<>>
                 THEN {"tags"} ELSE {})
                \cup (IF hostname # None THEN {"host_name"} ELSE {})
                \cup (IF device_name # None THEN {"device_name"} ELSE {})
    IN  [a \in keys |-> IF a = "tags" THEN tags.elems
                        ELSE IF a = "host_name" THEN hostname
                        ELSE device_name]

\* The inner loop of get_metrics over the keys of one metric, in the order
\* keys: UnknownValue skips the key, any other exception leaves the loop
\* (the outer "except: pass").
RECURSIVE KeyLoop(_, _, _, _, _, _)
KeyLoop(s, c, m, keys, expire, metrics) ==
    IF keys = <<>>
    THEN [store |-> s, metrics |-> metrics]
    ELSE LET key == Head(keys)
             r   == get_sample_with_timestamp(s, c, m, key[1], key[2], expire)
         IN  IF r.err = "UnknownValue"
             THEN KeyLoop(s, c, m, Tail(keys), expire, metrics)
             ELSE IF r.err # "none"
             THEN [store |-> s, metrics |-> metrics]
             ELSE KeyLoop(r.store, c, m, Tail(keys), expire,
                          Append(metrics,
                                 <<m, Int_(r.val[1]), r.val[2],
                                   Attributes(key[1], r.val[3], r.val[4])>>))

\* The outer loop of get_metrics over the metrics, in the order names.
RECURSIVE MetricLoop(_, _, _, _, _, _)
MetricLoop(s, c, names, order, expire, metrics) ==
    IF names = <<>>
    THEN [store |-> s, metrics |-> metrics]
    ELSE LET r == KeyLoop(s, c, Head(names), order[Head(names)], expire,
                          metrics)
         IN  MetricLoop(r.store, c, Tail(names), order, expire, r.metrics)

\* Check.get_metrics; names and order are the iteration orders of the two
\* dicts
get_metrics(s, c, names, order, expire) ==
    MetricLoop(s, c, names, order, expire, <<>>)

\* The iteration orders the dicts of store s may have.
KeyOrders(s) ==
    {o \in [DOMAIN s -> UNION {Perms(DOMAIN s[m]) : m \in DOMAIN s}] :
        \A m \in DOMAIN s : o[m] \in Perms(DOMAIN s[m])}

----------------------------------------------------------------------------
(* The calls on one Check object *)

NoWrite == <<Junk, Num(0), None>>

Call(op) ==
    [op |-> op, metric |-> None, tags |-> NoTags, device_name |-> None,
     expire |-> FALSE, input |-> NoWrite, err |-> "none", val |-> NoSample,
     values |-> EmptyDict, metrics |-> <<>>]

\* The AgentCheck call that produced a state: flag is the result of has_*,
\* list the result of get_*, statuses the result of run
Done(op) ==
    [op |-> op, arg |-> None, flag |-> FALSE, list |-> <<>>,
     statuses |-> <<>>]

\* Check.__init__; the AgentCheck attributes are the ones of an AgentCheck
\* built without instances
Init ==
    /\ store = EmptyDict
    /\ counters = {}
    /\ last = Call("__init__")
    /\ instances = <<>>
    /\ warnings = <<>>
    /\ events = <<>>
    /\ done = Done("__init__")

Counter(m) ==
    LET r == counter(store, counters, m)
    IN  /\ store' = r.store
        /\ counters' = r.counters
        /\ UNCHANGED agent_vars
        /\ last' = [Call("counter") EXCEPT !.metric = m]

Gauge(m) ==
    LET r == gauge(store, counters, m)
    IN  /\ store' = r.store
        /\ counters' = r.counters
        /\ UNCHANGED agent_vars
        /\ last' = [Call("gauge") EXCEPT !.metric = m]

SaveSample(m, key, in) ==
    LET r == save_sample(store, counters, m, in[1], in[2], key[1], in[3],
                         key[2])
    IN  /\ store' = r.store
        /\ UNCHANGED counters
        /\ UNCHANGED agent_vars
        /\ last' = [Call("save_sample") EXCEPT
                        !.metric = m, !.tags = key[1], !.device_name = key[2],
                        !.input = in, !.err = r.err]

SaveGauge(m, key, in) ==
    LET r == save_gauge(store, counters, m, in[1], in[2], key[1], in[3],
                        key[2])
    IN  /\ store' = r.store
        /\ counters' = r.counters
        /\ UNCHANGED agent_vars
        /\ last' = [Call("save_gauge") EXCEPT
                        !.metric = m, !.tags = key[1], !.device_name = key[2],
                        !.input = in, !.err = r.err]

GetSampleWithTimestamp(m, key, expire) ==
    LET r == get_sample_with_timestamp(store, counters, m, key[1], key[2],
                                       expire)
    IN  /\ store' = r.store
        /\ UNCHANGED counters
        /\ UNCHANGED agent_vars
        /\ last' = [Call("get_sample_with_timestamp") EXCEPT
                        !.metric = m, !.tags = key[1], !.device_name = key[2],
                        !.expire = expire, !.err = r.err, !.val = r.val]

GetSamplesWithTimestamps(expire) ==
    LET r == get_samples_with_timestamps(store, counters, expire)
    IN  /\ store' = r.store
        /\ UNCHANGED counters
        /\ UNCHANGED agent_vars
        /\ last' = [Call("get_samples_with_timestamps") EXCEPT
                        !.expire = expire, !.values = r.values]

GetSamples(expire) ==
    LET r == get_samples(store, counters, expire)
    IN  /\ store' = r.store
        /\ UNCHANGED counters
        /\ UNCHANGED agent_vars
        /\ last' = [Call("get_samples") EXCEPT
                        !.expire = expire, !.values = r.values]

GetMetrics(names, order, expire) ==
    LET r == get_metrics(store, counters, names, order, expire)
    IN  /\ store' = r.store
        /\ UNCHANGED counters
        /\ UNCHANGED agent_vars
        /\ last' = [Call("get_metrics") EXCEPT
                        !.expire = expire, !.metrics = r.metrics]

Next ==
    \/ \E m \in Metrics : Counter(m)
    \/ \E m \in Metrics : Gauge(m)
    \/ \E m \in Metrics : \E w \in Writes(m) : SaveSample(m, w[1], w[2])
    \/ \E m \in Metrics : \E w \in GaugeWrites(m) : SaveGauge(m, w[1], w[2])
    \/ \E m \in Metrics, key \in ReadKeys, expire \in BOOLEAN :
            GetSampleWithTimestamp(m, key, expire)
    \/ \E expire \in BOOLEAN : GetSamplesWithTimestamps(expire)
    \/ \E expire \in BOOLEAN : GetSamples(expire)
    \/ \E names \in Perms(DOMAIN store), order \in KeyOrders(store),
          expire \in BOOLEAN :
            GetMetrics(names, order, expire)

Spec == Init /\ [][Next]_vars

----------------------------------------------------------------------------
(* AgentCheck: the warning and event buffers, and run() over the instances *)

MaxInstances == 3
MaxBuffer == 2

Messages == {"w1", "w2"}
Payloads == {"e1", "e2"}

\* What a subclass's check(instance) does for an instance: the warnings it
\* records, in order, and whether it raises an Exception after them
Clean    == [say |-> <<>>, raises |-> FALSE]
Warn     == [say |-> <<"w2", "w1">>, raises |-> FALSE]
Fail     == [say |-> <<>>, raises |-> TRUE]
WarnFail == [say |-> <<"w1">>, raises |-> TRUE]
Bodies   == {Clean, Warn, Fail, WarnFail}

\* instances or []
Configs == UNION {[1..n -> Bodies] : n \in 0..MaxInstances}

STATUS_OK == "OK"
STATUS_WARNING == "WARNING"
STATUS_ERROR == "ERROR"

\* check_status.InstanceStatus(i, status, warnings=.., error=..)
InstanceStatus(i, status, ws, error) ==
    [instance_id |-> i, status |-> status, warnings |-> ws, error |-> error]

\* AgentCheck.event
event(es, ev) == Append(es, ev)

\* AgentCheck.has_events
has_events(es) == Len(es) > 0

\* AgentCheck.get_events
get_events(es) == [events |-> <<>>, ret |-> es]

\* AgentCheck.has_warnings
has_warnings(ws) == Len(ws) > 0

\* AgentCheck.warning
warning(ws, warning_message) == Append(ws, warning_message)

\* get_warnings that leaves the buffer as it is
get_warnings_peek(ws) == [warnings |-> ws, ret |-> ws]

\* AgentCheck.get_warnings
get_warnings(ws) == [warnings |-> <<>>, ret |-> ws]

\* self.check(instance): the body records its warnings through
\* self.warning, then returns or raises
RECURSIVE check(_, _, _)
check(ws, instance, n) ==
    IF n > Len(instance.say)
    THEN [warnings |-> ws, raised |-> instance.raises]
    ELSE check(warning(ws, instance.say[n]), instance, n + 1)

\* The body of the loop of run that forgets the index of the instance
RunInstance_no_index(ws, i, instance) ==
    LET body == check(ws, instance, 1)
    IN  IF body.raised
        THEN [warnings |-> body.warnings,
              status |-> InstanceStatus(0, STATUS_ERROR, <<>>, "Exception")]
        ELSE IF has_warnings(body.warnings)
        THEN LET g == get_warnings(body.warnings)
             IN  [warnings |-> g.warnings,
                  status |-> InstanceStatus(0, STATUS_WARNING, g.ret, None)]
        ELSE [warnings |-> body.warnings,
              status |-> InstanceStatus(0, STATUS_OK, <<>>, None)]

\* The body of the loop of run for instance number i (from 0): the try, its
\* except and the status it builds
RunInstance(ws, i, instance) ==
    LET body == check(ws, instance, 1)
    IN  IF body.raised
        THEN [warnings |-> body.warnings,
              status |-> InstanceStatus(i, STATUS_ERROR, <<>>, "Exception")]
        ELSE IF has_warnings(body.warnings)
        THEN LET g == get_warnings(body.warnings)
             IN  [warnings |-> g.warnings,
                  status |-> InstanceStatus(i, STATUS_WARNING, g.ret, None)]
        ELSE [warnings |-> body.warnings,
              status |-> InstanceStatus(i, STATUS_OK, <<>>, None)]

\* for i, instance in enumerate(self.instances), from position n
RECURSIVE RunLoop(_, _, _, _)
RunLoop(insts, n, ws, instance_statuses) ==
    IF n > Len(insts)
    THEN [warnings |-> ws, ret |-> instance_statuses]
    ELSE LET r == RunInstance(ws, n - 1, insts[n])
         IN  RunLoop(insts, n + 1, r.warnings,
                     Append(instance_statuses, r.status))

\* AgentCheck.run
run(insts, ws) == RunLoop(insts, 1, ws, <<>>)

\* AgentCheck.__init__, for every configuration of instances
AgentInit ==
    /\ store = EmptyDict
    /\ counters = {}
    /\ last = Call("__init__")
    /\ instances \in Configs
    /\ warnings = <<>>
    /\ events = <<>>
    /\ done = Done("__init__")

Warning(warning_message) ==
    /\ Len(warnings) < MaxBuffer
    /\ warnings' = warning(warnings, warning_message)
    /\ done' = [Done("warning") EXCEPT !.arg = warning_message]
    /\ UNCHANGED <<instances, events, check_vars>>

Event(ev) ==
    /\ Len(events) < MaxBuffer
    /\ events' = event(events, ev)
    /\ done' = [Done("event") EXCEPT !.arg = ev]
    /\ UNCHANGED <<instances, warnings, check_vars>>

HasWarnings ==
    /\ done' = [Done("has_warnings") EXCEPT !.flag = has_warnings(warnings)]
    /\ UNCHANGED <<instances, warnings, events, check_vars>>

HasEvents ==
    /\ done' = [Done("has_events") EXCEPT !.flag = has_events(events)]
    /\ UNCHANGED <<instances, warnings, events, check_vars>>

GetWarnings ==
    LET r == get_warnings(warnings)
    IN  /\ warnings' = r.warnings
        /\ done' = [Done("get_warnings") EXCEPT !.list = r.ret]
        /\ UNCHANGED <<instances, events, check_vars>>

GetEvents ==
    LET r == get_events(events)
    IN  /\ events' = r.events
        /\ done' = [Done("get_events") EXCEPT !.list = r.ret]
        /\ UNCHANGED <<instances, warnings, check_vars>>

\* A run that raises after a warning leaves the warning in the buffer, so
\* the buffer grows without limit over runs: the guard caps it
Run ==
    LET r == run(instances, warnings)
    IN  /\ Len(warnings) < MaxBuffer
        /\ warnings' = r.warnings
        /\ done' = [Done("run") EXCEPT !.statuses = r.ret]
        /\ UNCHANGED <<instances, events, check_vars>>

AgentNext ==
    \/ \E warning_message \in Messages : Warning(warning_message)
    \/ \E ev \in Payloads : Event(ev)
    \/ HasWarnings
    \/ HasEvents
    \/ GetWarnings
    \/ GetEvents
    \/ Run

AgentSpec == AgentInit /\ [][AgentNext]_vars

----------------------------------------------------------------------------
(* Vocabulary of the properties *)

Ok(call) == call.err = "none"

IsRead(call) == call.op = "get_sample_with_timestamp"

\* The SampleKey a read resolves to, and the one a write stores under.
ReadKeyOf(call) == <<ReadTags(call.tags), call.device_name>>
WriteKeyOf(call) == <<SaveTags(call.tags), call.device_name>>

\* The sample a write hands over.
SampleOf(call) ==
    <<call.input[2], call.input[1].num, call.input[3], call.device_name>>

\* call is a successful write of metric m under key k
WroteTo(call, m, k) ==
    /\ call.op \in {"save_sample", "save_gauge"}
    /\ Ok(call)
    /\ call.metric = m
    /\ WriteKeyOf(call) = k

\* call declares metric m (save_gauge declares a name that is no gauge)
Declared(call, m) ==
    /\ call.op \in {"counter", "gauge", "save_gauge"}
    /\ call.metric = m

Less(a, b) == a.n * b.d < b.n * a.d

Mul(a, b) == Rat(a.n * b.n, a.d * b.d)

\* The counters and gauges of a state, by their names.
CounterNames(s, c) == {m \in DOMAIN s : is_counter(c, m)}
GaugeNames(s, c) == {m \in DOMAIN s : is_gauge(s, c, m)}

\* record rec of get_metrics describes key k of metric m
RecordOf(rec, m, k) ==
    LET attributes == rec[4]
    IN  /\ rec[1] = m
        /\ k[1].elems = (IF "tags" \in DOMAIN attributes
                         THEN attributes["tags"] ELSE <<>>)
        /\ k[2] = (IF "device_name" \in DOMAIN attributes
                   THEN attributes["device_name"] ELSE None)

Records(call, m, k) ==
    {i \in DOMAIN call.metrics : RecordOf(call.metrics[i], m, k)}

----------------------------------------------------------------------------
(* Properties *)

\* C1: a gauge holds exactly one sample under every key.  A successful write
\* of a gauge leaves the written sample as the only one under its key, and a
\* read of that key then returns it; every call that is neither a write to
\* the key nor a declaration of the name leaves the sample in place; and a
\* read of a gauge key returns the stored sample.  So after N >= 1 writes to
\* a key one sample is stored, and it is the one of the N-th write.
C1_GaugeStep ==
    /\ \A m \in GaugeNames(store', counters') : \A k \in DOMAIN store'[m] :
            Len(store'[m][k]) = 1
    /\ \A m \in GaugeNames(store', counters') : \A k \in DOMAIN store'[m] :
            WroteTo(last', m, k) =>
                /\ store'[m][k] = <<SampleOf(last')>>
                /\ \A e \in BOOLEAN :
                     get_sample_with_timestamp(store', counters', m, k[1],
                                               k[2], e)
                       = [store |-> store', err |-> "none",
                          val |-> SampleOf(last')]
    /\ \A m \in GaugeNames(store, counters) : \A k \in DOMAIN store[m] :
            /\ (~WroteTo(last', m, k) /\ ~Declared(last', m)) =>
                    /\ m \in GaugeNames(store', counters')
                    /\ k \in DOMAIN store'[m]
                    /\ store'[m][k] = store[m][k]
            /\ (IsRead(last') /\ last'.metric = m /\ ReadKeyOf(last') = k) =>
                    /\ Ok(last')
                    /\ last'.val = store[m][k][1]

C1_GaugeKeepsLatest == [][C1_GaugeStep]_vars

\* C1 witness: a read returned the second sample written to a gauge key
C1_Witness ==
    /\ IsRead(last) /\ Ok(last)
    /\ last.metric \in GaugeNames(store, counters)
    /\ last.tags = ListBA
    /\ last.val = <<Rat(5, 2), Num(3), "h", "d">>

\* C2: the history of a counter key has one or two samples in every state.
\* A successful write to a key that holds a history leaves the last sample
\* of that history followed by the written one, a first write leaves the
\* written sample alone; and no call other than a write to the key changes
\* the last sample of its history.  So after N >= 2 writes the history is
\* the (N-1)-th and the N-th written sample, in that order.
C2_CounterStep ==
    /\ \A m \in CounterNames(store', counters') : \A k \in DOMAIN store'[m] :
            Len(store'[m][k]) \in {1, 2}
    /\ \A m \in CounterNames(store, counters) :
            \A k \in DOMAIN store'[m] :
                (last'.op = "save_sample" /\ WroteTo(last', m, k)) =>
                    store'[m][k] =
                        IF k \in DOMAIN store[m]
                        THEN <<Last(store[m][k]), SampleOf(last')>>
                        ELSE <<SampleOf(last')>>
    /\ \A m \in CounterNames(store, counters) : \A k \in DOMAIN store[m] :
            (~WroteTo(last', m, k) /\ ~Declared(last', m)) =>
                /\ k \in DOMAIN store'[m]
                /\ Last(store'[m][k]) = Last(store[m][k])
                /\ Len(store'[m][k]) <= Len(store[m][k])

C2_CounterKeepsLastTwo == [][C2_CounterStep]_vars

\* C2 witness: a write left two different samples under a counter key
C2_Witness ==
    /\ last.op = "save_sample" /\ Ok(last)
    /\ last.metric \in CounterNames(store, counters)
    /\ Len(store[last.metric][WriteKeyOf(last)]) = 2
    /\ store[last.metric][WriteKeyOf(last)][1]
         # store[last.metric][WriteKeyOf(last)][2]

\* The last two samples of a history of two.
Prev(h) == h[Len(h) - 1]
Curr(h) == h[Len(h)]

\* call reads key k of metric m
ReadOf(call, m, k) == IsRead(call) /\ call.metric = m /\ ReadKeyOf(call) = k

\* C3: a read of a counter key whose last two samples are (t1, v1) and
\* (t2, v2) with t2 > t1 and v2 >= v1 returns the timestamp t2, a value q
\* with q * (t2 - t1) = v2 - v1, and the hostname and device_name of the
\* second sample.
C3_RateStep ==
    \A m \in CounterNames(store, counters) : \A k \in DOMAIN store[m] :
        LET h == store[m][k]
        IN  (/\ ReadOf(last', m, k)
             /\ Len(h) >= 2
             /\ Less(Prev(h)[1], Curr(h)[1])
             /\ ~Less(Curr(h)[2], Prev(h)[2]))
            => /\ Ok(last')
               /\ last'.val[1] = Curr(h)[1]
               /\ Mul(last'.val[2], Sub(Curr(h)[1], Prev(h)[1]))
                    = Sub(Curr(h)[2], Prev(h)[2])
               /\ last'.val[3] = Curr(h)[3]
               /\ last'.val[4] = Curr(h)[4]

C3_RateOfLastTwo == [][C3_RateStep]_vars

\* C3 witness: a read returned the rate (3 - 0) / (5/2 - 1) = 2 with the
\* hostname of the second sample
C3_Witness ==
    /\ IsRead(last) /\ Ok(last)
    /\ last.metric \in CounterNames(store, counters)
    /\ last.val = <<Rat(5, 2), Num(2), "h", None>>

\* C4: a successful read with expire of a counter key leaves the last raw
\* sample alone in its history, and a read of that key then raises
\* UnknownValue; a read of a counter key with one sample raises UnknownValue
\* and changes nothing; and a history of one sample stays one sample until a
\* write to the key or a declaration of the name.
C4_EvictStep ==
    \A m \in CounterNames(store, counters) : \A k \in DOMAIN store[m] :
        /\ (ReadOf(last', m, k) /\ Ok(last') /\ last'.expire) =>
                /\ store'[m][k] = <<Last(store[m][k])>>
                /\ \A e \in BOOLEAN :
                     get_sample_with_timestamp(store', counters', m, k[1],
                                               k[2], e).err = "UnknownValue"
        /\ (ReadOf(last', m, k) /\ Len(store[m][k]) = 1) =>
                /\ last'.err = "UnknownValue"
                /\ store' = store
        /\ (/\ Len(store[m][k]) = 1
            /\ ~WroteTo(last', m, k)
            /\ ~Declared(last', m)) =>
                /\ k \in DOMAIN store'[m]
                /\ Len(store'[m][k]) = 1

C4_RateReadOnce == [][C4_EvictStep]_vars

\* C4 witness: a read with expire returned a rate and one sample is left
C4_Witness ==
    /\ IsRead(last) /\ Ok(last) /\ last.expire
    /\ last.metric \in CounterNames(store, counters)
    /\ Len(store[last.metric][ReadKeyOf(last)]) = 1

\* C5: for a counter key whose last two samples have t2 > t1 and v2 < v1, a
\* read raises UnknownValue and get_metrics has no record of the key.
C5_ResetStep ==
    \A m \in CounterNames(store, counters) : \A k \in DOMAIN store[m] :
        LET h == store[m][k]
        IN  (/\ Len(h) >= 2
             /\ Less(Prev(h)[1], Curr(h)[1])
             /\ Less(Curr(h)[2], Prev(h)[2]))
            => /\ ReadOf(last', m, k) => last'.err = "UnknownValue"
               /\ last'.op = "get_metrics" => Records(last', m, k) = {}

C5_CounterReset == [][C5_ResetStep]_vars

\* C5 witness: a read raised UnknownValue on the samples 3 at 1, 0 at 5/2
C5_Witness ==
    /\ IsRead(last) /\ last.err = "UnknownValue"
    /\ last.metric \in CounterNames(store, counters)
    /\ ReadKeyOf(last) \in DOMAIN store[last.metric]
    /\ LET h == store[last.metric][ReadKeyOf(last)]
       IN  /\ Len(h) = 2
           /\ Less(h[1][1], h[2][1])
           /\ Less(h[2][2], h[1][2])

\* C6: a read of a counter key whose last two samples have the same
\* timestamp raises Infinity, whatever the two values, and neither
\* UnknownValue nor NaN.
C6_ZeroIntervalStep ==
    \A m \in CounterNames(store, counters) : \A k \in DOMAIN store[m] :
        LET h == store[m][k]
        IN  (/\ ReadOf(last', m, k)
             /\ Len(h) >= 2
             /\ Prev(h)[1] = Curr(h)[1])
            => /\ last'.err = "Infinity"
               /\ last'.err \notin {"UnknownValue", "NaN"}

C6_ZeroInterval == [][C6_ZeroIntervalStep]_vars

\* C6 witness: a read raised Infinity on two samples of one timestamp whose
\* delta is negative
C6_Witness ==
    /\ IsRead(last) /\ last.err = "Infinity"
    /\ LET h == store[last.metric][ReadKeyOf(last)]
       IN  /\ h[1][1] = h[2][1]
           /\ Less(h[2][2], h[1][2])

\* a history from which no rate is derived
RateFails(h) ==
    \/ Len(h) < 2
    \/ Prev(h)[1] = Curr(h)[1]
    \/ Less(Curr(h)[2], Prev(h)[2])

\* C7: a read with expire of a counter key that raises UnknownValue or
\* Infinity leaves the store and the registry as they were; get_metrics with
\* expire leaves the history of every counter key from which no rate is
\* derived as it was.
C7_FailedReadStep ==
    /\ (/\ IsRead(last') /\ last'.expire
        /\ last'.metric \in CounterNames(store, counters)
        /\ last'.err \in {"UnknownValue", "Infinity"})
       => /\ store' = store
          /\ counters' = counters
    /\ (last'.op = "get_metrics" /\ last'.expire) =>
        \A m \in CounterNames(store, counters) : \A k \in DOMAIN store[m] :
            RateFails(store[m][k]) =>
                /\ k \in DOMAIN store'[m]
                /\ store'[m][k] = store[m][k]

C7_NoEvictionOnFailure == [][C7_FailedReadStep]_vars

\* C7 witness: a read with expire failed and the two samples are still there
C7_Witness ==
    /\ IsRead(last) /\ last.expire
    /\ last.err \in {"UnknownValue", "Infinity"}
    /\ last.metric \in CounterNames(store, counters)
    /\ ReadKeyOf(last) \in DOMAIN store[last.metric]
    /\ Len(store[last.metric][ReadKeyOf(last)]) = 2

\* C8: counter(name) and gauge(name) leave no key under name.  While name
\* has no key, every read of it raises, get_samples_with_timestamps and
\* get_samples have no entry for it and get_metrics has no record of it; and
\* name stays without a key until a write to it.
C8_DeclareStep ==
    /\ last'.op \in {"counter", "gauge"} =>
            /\ last'.metric \in DOMAIN store'
            /\ DOMAIN store'[last'.metric] = {}
    /\ \A m \in DOMAIN store :
        DOMAIN store[m] = {} =>
            /\ (IsRead(last') /\ last'.metric = m) => ~Ok(last')
            /\ last'.op \in {"get_samples_with_timestamps", "get_samples"}
                    => m \notin DOMAIN last'.values
            /\ last'.op = "get_metrics"
                    => \A i \in DOMAIN last'.metrics : last'.metrics[i][1] # m
            /\ ~(\E k \in DOMAIN store'[m] : WroteTo(last', m, k))
                    => DOMAIN store'[m] = {}

C8_DeclarationResets == [][C8_DeclareStep]_vars

\* C8 witness: a read of a declared name that holds no key has failed
C8_Witness ==
    /\ IsRead(last) /\ ~Ok(last)
    /\ last.metric \in DOMAIN store
    /\ DOMAIN store[last.metric] = {}

\* C9: after gauge(name) the name is a gauge and no counter, after
\* counter(name) it is a counter and no gauge.
C9_KindOfLastDeclaration ==
    /\ last.op = "gauge" =>
            /\ is_gauge(store, counters, last.metric)
            /\ ~is_counter(counters, last.metric)
    /\ last.op = "counter" =>
            /\ is_counter(counters, last.metric)
            /\ ~is_gauge(store, counters, last.metric)

\* C10: a save_sample that raises leaves the store and the registry as they
\* were.  It raises the undefined-metric CheckException for a name not
\* declared; NaN for a declared name and a value that is no number; the tags
\* CheckException for a declared name, a number and tags that are neither
\* None nor a list nor a tuple.
C10_FailedWriteStep ==
    last'.op = "save_sample" =>
        /\ ~Ok(last') => (store' = store /\ counters' = counters)
        /\ last'.metric \notin DOMAIN store => last'.err = UndefinedMetric
        /\ (/\ last'.metric \in DOMAIN store
            /\ last'.input[1].kind # "num") => last'.err = "NaN"
        /\ (/\ last'.metric \in DOMAIN store
            /\ last'.input[1].kind = "num"
            /\ last'.tags.kind \notin {"none", "list", "tuple"})
                => last'.err = BadTags

C10_FailedWrite == [][C10_FailedWriteStep]_vars

\* C10 witness: a write with a string as tags has failed on a name that
\* holds samples
C10_Witness ==
    /\ last.op = "save_sample" /\ last.err = BadTags
    /\ DOMAIN store[last.metric] # {}

\* C11: a successful save_sample of metric m under key k changes the history
\* of (m, k) and nothing else: the store holds the same names, m holds the
\* keys it held and k, every other key of m and every key of every other
\* name keeps its history, and the kind of every name is the one it was.
\* So two keys of one name, differing in tags or device, are independent
\* series.
C11_WriteFrameStep ==
    (last'.op = "save_sample" /\ Ok(last')) =>
        LET m == last'.metric
            k == WriteKeyOf(last')
        IN  /\ DOMAIN store' = DOMAIN store
            /\ counters' = counters
            /\ DOMAIN store'[m] = DOMAIN store[m] \cup {k}
            /\ \A k2 \in DOMAIN store[m] \ {k} : store'[m][k2] = store[m][k2]
            /\ \A m2 \in DOMAIN store \ {m} : store'[m2] = store[m2]
            /\ \A m2 \in DOMAIN store :
                    /\ is_counter(counters', m2) = is_counter(counters, m2)
                    /\ is_gauge(store', counters', m2)
                         = is_gauge(store, counters, m2)
            /\ Last(store'[m][k]) = SampleOf(last')

C11_WriteFrame == [][C11_WriteFrameStep]_vars

\* C11 witness: a write to the untagged key of a name whose tagged key
\* holds a sample, while the other name holds one too
C11_Witness ==
    /\ last.op = "save_sample" /\ Ok(last)
    /\ last.metric = "m1"
    /\ WriteKeyOf(last) = <<NoTags, None>>
    /\ \E k \in DOMAIN store["m1"] : k # <<NoTags, None>>
    /\ "m2" \in DOMAIN store
    /\ store["m2"] # EmptyDict

\* C12: the order of the tags never matters.  A write with a list or a
\* tuple of tags stores under the key of the sorted tags, whatever their
\* order; so a read of a gauge with a list or a tuple that is a reordering
\* of the tags of a stored key resolves to that key and returns its sample.
C12_TagOrderStep ==
    (IsRead(last') /\ last'.tags.kind \in {"list", "tuple"}) =>
        LET m == last'.metric
            k == <<SaveTags(last'.tags), last'.device_name>>
        IN  (m \in GaugeNames(store, counters) /\ k \in DOMAIN store[m]) =>
                /\ ReadKeyOf(last') = k
                /\ Ok(last')
                /\ last'.val = Last(store[m][k])

C12_TagOrderNeverMatters == [][C12_TagOrderStep]_vars

\* A read of (name, key) finds no history: the name is undeclared, or it is
\* declared and holds nothing under the key
NoHistory(s, call) ==
    \/ call.metric \notin DOMAIN s
    \/ ReadKeyOf(call) \notin DOMAIN s[call.metric]

\* C13 (amended): a read of a (name, key) with no history fails and changes
\* neither the store nor the kinds.  For an undeclared name it raises
\* UnknownValue, the error a counter with fewer than two samples raises too;
\* for a declared name never written under the key it raises KeyError.
C13_NoHistoryStep ==
    (IsRead(last') /\ NoHistory(store, last')) =>
        /\ store' = store
        /\ counters' = counters
        /\ last'.metric \notin DOMAIN store => last'.err = "UnknownValue"
        /\ last'.metric \in DOMAIN store => last'.err = "KeyError"

C13_NoHistoryFails == [][C13_NoHistoryStep]_vars

\* C13 witness: a read of a declared name under a key it never held
C13_Witness ==
    /\ IsRead(last)
    /\ last.err = "KeyError"
    /\ last.metric \in DOMAIN store
    /\ ReadKeyOf(last) \notin DOMAIN store[last.metric]
    /\ store[last.metric] # EmptyDict

\* C13 as stated: a read of a (name, key) with no history fails with an
\* error of its own kind, one that is not UnknownValue, and changes neither
\* the store nor the kinds.
C13_OwnErrorKindStep ==
    (IsRead(last') /\ NoHistory(store, last')) =>
        /\ store' = store
        /\ counters' = counters
        /\ last'.err \notin {"none", "UnknownValue"}

C13_OwnErrorKind == [][C13_OwnErrorKindStep]_vars

ReadOps ==
    {"get_sample_with_timestamp", "get_samples_with_timestamps",
     "get_samples", "get_metrics"}

\* C14: a read of a gauge never evicts.  A read of a key of a gauge, with
\* either value of expire, returns the stored sample and leaves the store
\* and the kinds as they were, and so does the same read made again from
\* the state it leaves, with either value of expire; and no reading call
\* changes the history of any key of a gauge.  So any number of reads in a
\* row return the same sample.
C14_GaugeReadStep ==
    /\ (IsRead(last') /\ last'.metric \in GaugeNames(store, counters)) =>
            LET m == last'.metric
                k == ReadKeyOf(last')
            IN  /\ store' = store
                /\ counters' = counters
                /\ k \in DOMAIN store[m] =>
                    /\ Ok(last')
                    /\ last'.val = Last(store[m][k])
                    /\ \A e \in BOOLEAN :
                         get_sample_with_timestamp(store', counters', m,
                                                   last'.tags,
                                                   last'.device_name, e)
                           = [store |-> store, err |-> "none",
                              val |-> last'.val]
    /\ last'.op \in ReadOps =>
            \A m \in GaugeNames(store, counters) :
                /\ m \in GaugeNames(store', counters')
                /\ store'[m] = store[m]

C14_GaugeReadNeverEvicts == [][C14_GaugeReadStep]_vars

\* C14 witness: an evicting read of a gauge returned its sample, which is
\* still stored
C14_Witness ==
    /\ IsRead(last) /\ Ok(last) /\ last.expire
    /\ last.metric = "m2"
    /\ "m2" \in GaugeNames(store, counters)
    /\ store["m2"][ReadKeyOf(last)] = <<last.val>>

\* The names an untagged read succeeds for
Readable(s, c, expire) ==
    {m \in DOMAIN s :
        get_sample_with_timestamp(s, c, m, NoTags, None, expire).err = "none"}

\* get_samples_with_timestamps or get_samples, whichever call made
ReadAll(call, s, c, expire) ==
    IF call.op = "get_samples" THEN get_samples(s, c, expire)
                               ELSE get_samples_with_timestamps(s, c, expire)

\* C15: get_samples_with_timestamps and get_samples return a mapping for
\* every store, over exactly the names whose untagged read succeeds.
\* Without eviction the call leaves the store unchanged and the same call
\* made again returns the same mapping.  With eviction the same call made
\* again still maps every gauge that holds an untagged sample to the value
\* the first call gave, and maps no counter the first call returned a rate
\* for.
C15_ReadAllStep ==
    last'.op \in {"get_samples_with_timestamps", "get_samples"} =>
        LET again == ReadAll(last', store', counters', last'.expire)
        IN  /\ DOMAIN last'.values = Readable(store, counters, last'.expire)
            /\ counters' = counters
            /\ ~last'.expire =>
                    /\ store' = store
                    /\ again = [store |-> store, values |-> last'.values]
            /\ last'.expire =>
                    /\ \A m \in GaugeNames(store, counters) :
                         <<NoTags, None>> \in DOMAIN store[m] =>
                            /\ m \in DOMAIN last'.values
                            /\ m \in DOMAIN again.values
                            /\ again.values[m] = last'.values[m]
                    /\ \A m \in CounterNames(store, counters) :
                         m \in DOMAIN last'.values =>
                            m \notin DOMAIN again.values

C15_ReadAllIdempotent == [][C15_ReadAllStep]_vars

\* C15 witness: an evicting get_samples_with_timestamps returned the sample
\* of a gauge and the rate of a counter
C15_Witness ==
    /\ last.op = "get_samples_with_timestamps" /\ last.expire
    /\ \E m \in GaugeNames(store, counters) : m \in DOMAIN last.values
    /\ \E m \in CounterNames(store, counters) : m \in DOMAIN last.values

\* C16: get_metrics skips the failing entries and nothing else.  For every
\* name and key of the store it returns exactly one record if the read of
\* that key succeeds and none if it fails: a key that fails, with
\* UnknownValue or with Infinity, takes no record of another key away.
C16_EnumerateStep ==
    last'.op = "get_metrics" =>
        \A m \in DOMAIN store : \A k \in DOMAIN store[m] :
            Cardinality(Records(last', m, k))
              = (IF get_sample_with_timestamp(store, counters, m, k[1], k[2],
                                              last'.expire).err = "none"
                 THEN 1 ELSE 0)

C16_EnumerateSkipsOnlyFailures == [][C16_EnumerateStep]_vars

\* The statuses of a run, without what they carry
StatusesOf(call) == [i \in DOMAIN call.statuses |-> call.statuses[i].status]

\* C17: run over n instances returns n statuses, the i-th with index i
\* (from 0) and ERROR exactly if the body of the i-th instance raised.  The
\* instances run in the order of the configuration, each after the ones
\* before it: the first j statuses are the ones run returns for the first j
\* instances alone, so an instance that raises takes no status of a later
\* instance away.  A body that raises, one that warns and one that does
\* neither give ERROR, WARNING, OK.
C17_RunStep ==
    done'.op = "run" =>
        LET st == done'.statuses
            n  == Len(instances)
        IN  /\ Len(st) = n
            /\ \A i \in 1..n :
                /\ st[i].instance_id = i - 1
                /\ st[i].status = STATUS_ERROR <=> instances[i].raises
            /\ \A j \in 0..n :
                 SubSeq(st, 1, j) = run(SubSeq(instances, 1, j), warnings).ret
            /\ (n = 3 /\ instances[1].raises /\ instances[2] = Warn
                      /\ instances[3] = Clean) =>
                 StatusesOf(done')
                    = <<STATUS_ERROR, STATUS_WARNING, STATUS_OK>>

C17_RunReturnsAllStatuses == [][C17_RunStep]_vars

\* C17 witness: a run of a body that raises, one that warns and a clean one
C17_Witness ==
    /\ done.op = "run"
    /\ instances = <<Fail, Warn, Clean>>
    /\ StatusesOf(done) = <<STATUS_ERROR, STATUS_WARNING, STATUS_OK>>

\* The status the body of an instance calls for by itself
OwnStatus(i, instance) ==
    IF instance.raises
    THEN InstanceStatus(i, STATUS_ERROR, <<>>, "Exception")
    ELSE IF instance.say # <<>>
    THEN InstanceStatus(i, STATUS_WARNING, instance.say, None)
    ELSE InstanceStatus(i, STATUS_OK, <<>>, None)

\* C18: the status of an instance depends on its own body alone.  In a run
\* that starts with no warning in the buffer, the status of every instance
\* is ERROR if its body raised, WARNING with exactly the warnings of its
\* body if the body recorded some and did not raise, and OK otherwise,
\* whatever the instances before it did.
C18_OwnBodyStep ==
    (done'.op = "run" /\ warnings = <<>>) =>
        \A i \in 1..Len(instances) :
            done'.statuses[i] = OwnStatus(i - 1, instances[i])

C18_StatusOfOwnBody == [][C18_OwnBodyStep]_vars

\* C19: the two buffers are read once.  warning and event append to their
\* own buffer and leave the other as it is; get_warnings and get_events
\* return their whole buffer, which holds what was added since it was last
\* emptied, in the order of the additions, and leave it empty and the other
\* buffer as it is, so that the same call made again returns the empty
\* sequence and has_warnings, has_events answers false; has_warnings and
\* has_events tell whether their buffer holds something and change neither.
C19_BufferStep ==
    /\ done'.op = "warning" =>
            /\ warnings' = warnings \o <<done'.arg>>
            /\ events' = events
    /\ done'.op = "event" =>
            /\ events' = events \o <<done'.arg>>
            /\ warnings' = warnings
    /\ done'.op = "get_warnings" =>
            /\ done'.list = warnings
            /\ warnings' = <<>>
            /\ events' = events
            /\ get_warnings(warnings').ret = <<>>
            /\ ~has_warnings(warnings')
    /\ done'.op = "get_events" =>
            /\ done'.list = events
            /\ events' = <<>>
            /\ warnings' = warnings
            /\ get_events(events').ret = <<>>
            /\ ~has_events(events')
    /\ done'.op = "has_warnings" =>
            /\ done'.flag <=> warnings # <<>>
            /\ warnings' = warnings /\ events' = events
    /\ done'.op = "has_events" =>
            /\ done'.flag <=> events # <<>>
            /\ warnings' = warnings /\ events' = events
    /\ done'.op = "run" => events' = events

C19_BuffersReadOnce == [][C19_BufferStep]_vars

\* C19 witness: get_warnings returned two warnings in the order they were
\* added and left the buffer empty, while the events stayed
C19_Witness ==
    /\ done.op = "get_warnings"
    /\ done.list = <<"w2", "w1">>
    /\ warnings = <<>>
    /\ events = <<"e1", "e2">>

\* C20: the windows of a counter key chain.  A successful read of the key,
\* with expire or without, leaves the last sample (t2, v2) of its history
\* last; the next write of (t3, v3) to the key leaves (t2, v2), (t3, v3) as
\* its history, whether the read evicted or not; and a read from there
\* derives its result from these two samples alone: Infinity if t3 = t2,
\* UnknownValue if v3 < v2, else the rate q with q * (t3 - t2) = v3 - v2 at
\* t3.  So the second read gives the same result after an evicting and
\* after a non-evicting first read.
C20_ChainStep ==
    /\ (IsRead(last') /\ Ok(last')
            /\ last'.metric \in CounterNames(store, counters)) =>
            LET m == last'.metric
                k == ReadKeyOf(last')
            IN  /\ Last(store'[m][k]) = Last(store[m][k])
                /\ store'[m][k] = (IF last'.expire
                                   THEN <<Last(store[m][k])>>
                                   ELSE store[m][k])
    /\ (last'.op = "save_sample" /\ Ok(last')
            /\ last'.metric \in CounterNames(store, counters)
            /\ WriteKeyOf(last') \in DOMAIN store[last'.metric]) =>
            LET m  == last'.metric
                k  == WriteKeyOf(last')
                s2 == Last(store[m][k])
                s3 == SampleOf(last')
            IN  /\ store'[m][k] = <<s2, s3>>
                /\ \A e \in BOOLEAN :
                    LET r == get_sample_with_timestamp(store', counters', m,
                                                       k[1], k[2], e)
                    IN  IF s3[1] = s2[1] THEN r.err = "Infinity"
                        ELSE IF Less(s3[2], s2[2])
                        THEN r.err = "UnknownValue"
                        ELSE /\ r.err = "none"
                             /\ r.val[1] = s3[1]
                             /\ Mul(r.val[2], Sub(s3[1], s2[1]))
                                  = Sub(s3[2], s2[2])
                             /\ r.val[3] = s3[3]
                             /\ r.val[4] = s3[4]

C20_WindowsChain == [][C20_ChainStep]_vars

\* C20 witness: a non-evicting read returned the rate (3 - 3) / (5/2 - 1) = 0
\* of the two samples a write left under the key
C20_Witness ==
    /\ IsRead(last) /\ Ok(last) /\ ~last.expire
    /\ last.metric \in CounterNames(store, counters)
    /\ store[last.metric][ReadKeyOf(last)]
         = << <<Num(1), Num(3), "h", None>>, <<Rat(5, 2), Num(3), "h", None>> >>
    /\ last.val = <<Rat(5, 2), Num(0), "h", None>>

\* C21: no read reports a negative rate for a counter.  In every state the
\* value the last call returned for a counter, through
\* get_sample_with_timestamp, get_samples_with_timestamps, get_samples or
\* get_metrics, is at least 0, whatever timestamps the writes carried.
C21_NoNegativeRate ==
    /\ (IsRead(last) /\ Ok(last)
            /\ last.metric \in CounterNames(store, counters)) =>
            last.val[2].n >= 0
    /\ last.op = "get_samples_with_timestamps" =>
            \A m \in DOMAIN last.values :
                m \in CounterNames(store, counters) =>
                    last.values[m][2].n >= 0
    /\ last.op = "get_samples" =>
            \A m \in DOMAIN last.values :
                m \in CounterNames(store, counters) =>
                    last.values[m].n >= 0
    /\ last.op = "get_metrics" =>
            \A i \in DOMAIN last.metrics :
                last.metrics[i][1] \in CounterNames(store, counters) =>
                    last.metrics[i][3].n >= 0

\* C22: save_gauge stores a gauge value whatever the name was before:
\* undeclared, a gauge, or declared a counter.  After a successful
\* save_gauge the read of the name with the same tags and device returns
\* the sample just saved, with either value of expire, and if the name was
\* declared the other keys it held keep their histories.
C22_SaveGaugeStep ==
    (last'.op = "save_gauge" /\ Ok(last')) =>
        LET m == last'.metric
            k == WriteKeyOf(last')
        IN  /\ \A e \in BOOLEAN :
                LET r == get_sample_with_timestamp(store', counters', m,
                                                   last'.tags,
                                                   last'.device_name, e)
                IN  /\ r.err = "none"
                    /\ r.val = SampleOf(last')
            /\ m \in DOMAIN store =>
                \A k2 \in DOMAIN store[m] \ {k} :
                    /\ k2 \in DOMAIN store'[m]
                    /\ store'[m][k2] = store[m][k2]

C22_SaveGaugeAnyPriorState == [][C22_SaveGaugeStep]_vars

============================================================================
